---- MODULE Spec2Model ----
(***************************************************************************)
(* dia-batching-server: the price update pipeline.                         *)
(*                                                                         *)
(*   run_update_prices_loop -> update_prices -> PriceApiImpl::get_quotations*)
(*     -> {Polygon, Coingecko, Custom feeds} -> convert_decimal_to_u128    *)
(*     -> CoinInfoStorage::replace_currencies_by_symbols                   *)
(*                                                                         *)
(* and the read path CoinInfoStorage::get_currencies_by_blockchains_and_   *)
(* symbols.                                                                *)
(*                                                                         *)
(* Numbers.  TLC integers are 32 bit, the program's are 96 and 128 bit, so *)
(* a number is a sequence of base-10^6 limbs, most significant first.  A   *)
(* rust_decimal Decimal is [neg, int, frac]: the limbs of its integer part *)
(* and the 6-digit groups of its fractional digits.  10^12, the scale of   *)
(* the published price, is two limbs.                                      *)
(***************************************************************************)
EXTENDS Integers, Sequences, FiniteSets, TLC

LimbBase == 10^6

\* 1_000_000_000_000_u128 = LimbBase^ScaleLimbs
ScaleLimbs == 2

\* 2^96 = 79228162514264337593543950336: a Decimal's mantissa is below it
DecimalMantissaLimit == <<79228, 162514, 264337, 593543, 950336>>

\* fractional 6-digit groups kept of a quotient (24 digits; the converter
\* reads the first 12)
DivFracLimbs == 4

-----------------------------------------------------------------------------
(* Limb arithmetic *)

RECURSIVE Strip(_)
\* without leading zero limbs
Strip(s) == IF s = <<>> THEN <<>>
            ELSE IF s[1] = 0 THEN Strip(Tail(s)) ELSE s

RECURSIVE TrimRight(_)
\* without trailing zero limbs
TrimRight(s) == IF s = <<>> THEN <<>>
                ELSE IF s[Len(s)] = 0 THEN TrimRight(SubSeq(s, 1, Len(s) - 1)) ELSE s

Zeros(n) == [i \in 1..n |-> 0]

IsZeroLimbs(s) == \A i \in 1..Len(s) : s[i] = 0

RECURSIVE LexGeq(_, _)
\* a >= b for limb sequences of equal length
LexGeq(a, b) == IF a = <<>> THEN TRUE
                ELSE IF a[1] # b[1] THEN a[1] > b[1]
                ELSE LexGeq(Tail(a), Tail(b))

\* a >= b for stripped limb sequences
GeqLimbs(a, b) == IF Len(a) # Len(b) THEN Len(a) > Len(b) ELSE LexGeq(a, b)

RECURSIVE AddAligned(_, _, _, _)
\* limbs of a + b + carry over positions 1..i of two sequences of equal length,
\* with the carry out as the first limb
AddAligned(a, b, i, carry) ==
    IF i = 0 THEN <<carry>>
    ELSE LET sum == a[i] + b[i] + carry
         IN  AddAligned(a, b, i - 1, sum \div LimbBase) \o <<sum % LimbBase>>

AddLimbs(a, b) ==
    LET n  == IF Len(a) > Len(b) THEN Len(a) ELSE Len(b)
        pa == Zeros(n - Len(a)) \o a
        pb == Zeros(n - Len(b)) \o b
    IN  Strip(AddAligned(pa, pb, n, 0))

RECURSIVE SubAligned(_, _, _, _)
\* limbs of a - b - borrow over positions 1..i of two sequences of equal length,
\* a >= b
SubAligned(a, b, i, borrow) ==
    IF i = 0 THEN <<>>
    ELSE LET d == a[i] - b[i] - borrow
         IN  SubAligned(a, b, i - 1, IF d < 0 THEN 1 ELSE 0)
                \o <<IF d < 0 THEN d + LimbBase ELSE d>>

RECURSIVE DivStep(_, _, _, _)
\* long division of the limbs s[i..] by a small m, rem carried in
DivStep(s, i, rem, m) ==
    IF i > Len(s) THEN <<>>
    ELSE LET cur == rem * LimbBase + s[i]
         IN  <<cur \div m>> \o DivStep(s, i + 1, cur % m, m)

RECURSIVE LimbsToInt(_)
\* the value of a short limb sequence (it must fit a TLC integer)
LimbsToInt(s) == IF s = <<>> THEN 0
                 ELSE LimbsToInt(SubSeq(s, 1, Len(s) - 1)) * LimbBase + s[Len(s)]

-----------------------------------------------------------------------------
(* rust_decimal::Decimal *)

Dec(i, f) == [neg |-> FALSE, int |-> i, frac |-> f]
NegDec(i, f) == [neg |-> TRUE, int |-> i, frac |-> f]

DecZero == Dec(<<>>, <<>>)
DecOne == Dec(<<1>>, <<>>)

DecIsZero(d) == IsZeroLimbs(d.int) /\ IsZeroLimbs(d.frac)

\* d > 0.into()
DecGtZero(d) == ~d.neg /\ ~DecIsZero(d)

\* Decimal::fract: the sign stays with a non-zero fraction
DecFract(d) == [neg |-> d.neg /\ ~IsZeroLimbs(d.frac), int |-> <<>>, frac |-> d.frac]

\* Decimal::trunc
DecTrunc(d) == [neg |-> d.neg /\ ~IsZeroLimbs(d.int), int |-> d.int, frac |-> <<>>]

\* the product d * Decimal::from(1_000_000_000_000_u128), before the 96-bit check
DecTimesScale(d) ==
    LET padded == d.frac \o Zeros(ScaleLimbs)
    IN  [neg  |-> d.neg,
         int  |-> Strip(d.int \o SubSeq(padded, 1, ScaleLimbs)),
         frac |-> TrimRight(SubSeq(d.frac, ScaleLimbs + 1, Len(d.frac)))]

\* impl Mul for Decimal panics ("Multiplication overflowed") when the product's
\* integer part does not fit the 96-bit mantissa
DecMulOverflows(d) == GeqLimbs(DecTimesScale(d).int, DecimalMantissaLimit)

\* variant: the value is rounded to the nearest integer
DecToU128Rounding(d) ==
    IF d.neg THEN [some |-> FALSE, v |-> <<>>]
    ELSE [some |-> TRUE,
          v |-> IF d.frac # <<>> /\ d.frac[1] >= LimbBase \div 2
                THEN AddLimbs(d.int, <<1>>) ELSE d.int]

\* ToPrimitive::to_u128: None for a negative value, else the truncated value
DecToU128(d) == IF d.neg THEN [some |-> FALSE, v |-> <<>>]
                ELSE [some |-> TRUE, v |-> d.int]

\* Decimal::from(1).checked_div(q): None for q = 0
DecCheckedRecip(q) ==
    IF DecIsZero(q) THEN [some |-> FALSE, v |-> DecZero]
    ELSE LET m        == LimbsToInt(Strip(q.int \o q.frac))
             dividend == <<1>> \o Zeros(Len(q.frac)) \o Zeros(DivFracLimbs)
             quot     == DivStep(dividend, 1, 0, m)
             nint     == Len(q.frac) + 1
         IN  [some |-> TRUE,
              v |-> [neg  |-> q.neg,
                     int  |-> Strip(SubSeq(quot, 1, nint)),
                     frac |-> TrimRight(SubSeq(quot, nint + 1, Len(quot)))]]

-----------------------------------------------------------------------------
(* Strings.  TLC strings are atomic, so to_uppercase and split('-') are tables *)
(* over the strings of the model's assets.                                    *)

\* str::to_uppercase
ToUpper(s) ==
    CASE s = "fiat"      -> "FIAT"
      [] s = "Fiat"      -> "FIAT"
      [] s = "brl"       -> "BRL"
      [] s = "brl-usd"   -> "BRL-USD"
      [] s = "BRL-usd"   -> "BRL-USD"
      [] s = "amplitude" -> "AMPLITUDE"
      [] s = "ampe"      -> "AMPE"
      [] s = "usd"       -> "USD"
      [] s = "crypto"    -> "CRYPTO"
      [] s = "Amplitude" -> "AMPLITUDE"
      [] s = "Polkadot"  -> "POLKADOT"
      [] s = "Bitcoin"   -> "BITCOIN"
      [] s = "Pendulum"  -> "PENDULUM"
      [] s = "Kusama"    -> "KUSAMA"
      [] s = "Astar"     -> "ASTAR"
      [] s = "Bifrost"   -> "BIFROST"
      [] s = "HydraDX"   -> "HYDRADX"
      [] s = "Moonbeam"  -> "MOONBEAM"
      [] s = "Polkadex"  -> "POLKADEX"
      [] s = "Stellar"   -> "STELLAR"
      [] s = "vDOT"      -> "VDOT"
      [] OTHER           -> s

\* symbol.split('-').collect()
SplitDash(s) ==
    CASE s = "ARS-USD" -> <<"ARS", "USD">>
      [] s = "BRL-USD" -> <<"BRL", "USD">>
      [] s = "USD-USD" -> <<"USD", "USD">>
      [] s = "BRL-EUR" -> <<"BRL", "EUR">>
      [] s = "brl-usd" -> <<"brl", "usd">>
      [] s = "BRL-usd" -> <<"BRL", "usd">>
      [] s = "-USD"    -> <<"", "USD">>
      [] s = "BRL-USD-EUR" -> <<"BRL", "USD", "EUR">>
      [] s = "BRL--USD"    -> <<"BRL", "", "USD">>
      [] s = "EUR-USD" -> <<"EUR", "USD">>
      [] s = "AUD-USD" -> <<"AUD", "USD">>
      [] s = "NGN-USD" -> <<"NGN", "USD">>
      [] s = "TZS-USD" -> <<"TZS", "USD">>
      [] OTHER         -> <<s>>

\* PolygonClient::currency_to_ticker: format!("C:{}USD", from_currency)
currency_to_ticker(from_currency) == "C:" \o from_currency \o "USD"

-----------------------------------------------------------------------------
(* Data model *)

AssetSpecifier(b, s) == [blockchain |-> b, symbol |-> s]

\* the Storage map key of a CoinInfo or of an AssetSpecifier
Key(x) == <<x.blockchain, x.symbol>>

\* Quotation with a supply
QuotationWithSupply(sym, nm, bc, p, supply) ==
    [symbol |-> sym, name |-> nm, blockchain |-> bc, price |-> p, supply |-> supply]

\* Quotation as the sources build it, supply: Decimal::zero(); the time field
\* is left out, nothing in the pipeline reads it but the copy into
\* last_update_timestamp
Quotation(sym, nm, bc, p) == QuotationWithSupply(sym, nm, bc, p, DecZero)

\* blockchain: None
NoBlockchain == "<None>"

Ok(v) == [ok |-> TRUE, v |-> v]
Err == [ok |-> FALSE, v |-> <<>>]

\* Err(CustomError(msg)); of a formatted message, the text before the cause
CustomError(msg) == [ok |-> FALSE, v |-> <<>>, error |-> msg]

\* the elements of a sequence
Range(s) == {s[i] : i \in 1..Len(s)}

-----------------------------------------------------------------------------
(* Fixed-Point Converter, price_updater.rs *)

\* convert_decimal_to_u128: "ok" with the limbs of the u128, "err" for
\* ConvertingError::DecimalTooLarge, "panic" when a multiplication overflows
convert_decimal_to_u128(input) ==
    LET fract == DecToU128(DecTimesScale(DecFract(input)))
        trunc == DecToU128(DecTimesScale(DecTrunc(input)))
    IN  IF ~fract.some THEN [tag |-> "err", v |-> <<>>]
        ELSE IF DecMulOverflows(DecTrunc(input)) THEN [tag |-> "panic", v |-> <<>>]
        ELSE IF ~trunc.some THEN [tag |-> "err", v |-> <<>>]
        ELSE [tag |-> "ok", v |-> AddLimbs(trunc.v, fract.v)]

\* variant: the whole units of the quotation's supply are published
convert_to_coin_info_with_supply(value) ==
    LET price == convert_decimal_to_u128(value.price)
    IN  [tag |-> price.tag,
         v   |-> [name       |-> value.name,
                  symbol     |-> value.symbol,
                  blockchain |-> IF value.blockchain = NoBlockchain THEN "FIAT"
                                 ELSE value.blockchain,
                  price      |-> price.v,
                  supply     |-> LimbsToInt(DecTrunc(value.supply).int)]]

\* variant: the record carries the quotation's blockchain field as it is
convert_to_coin_info_blockchain_kept(value) ==
    LET price == convert_decimal_to_u128(value.price)
    IN  [tag |-> price.tag,
         v   |-> [name       |-> value.name,
                  symbol     |-> value.symbol,
                  blockchain |-> value.blockchain,
                  price      |-> price.v,
                  supply     |-> 0]]

\* convert_to_coin_info: let Quotation { name, symbol, blockchain, price, time, .. }
\* and let supply = 0
convert_to_coin_info(value) ==
    LET price == convert_decimal_to_u128(value.price)
    IN  [tag |-> price.tag,
         v   |-> [name       |-> value.name,
                  symbol     |-> value.symbol,
                  blockchain |-> IF value.blockchain = NoBlockchain THEN "FIAT"
                                 ELSE value.blockchain,
                  price      |-> price.v,
                  supply     |-> 0]]

-----------------------------------------------------------------------------
(* Fiat Conversion Source, api/polygon.rs *)

Some(x) == [some |-> TRUE, v |-> x]
NoString == [some |-> FALSE, v |-> ""]

\* variant: the parts after the second are ignored
extract_source_currency_lenient(asset) ==
    LET parts == SplitDash(asset.symbol)
    IN  IF ToUpper(asset.blockchain) # "FIAT" THEN NoString
        ELSE IF Len(parts) < 2 THEN NoString
        ELSE IF ToUpper(parts[2]) # "USD" THEN NoString
        ELSE Some(ToUpper(parts[1]))

\* PolygonPriceApi::extract_source_currency
extract_source_currency(asset) ==
    LET parts == SplitDash(asset.symbol)
    IN  IF ToUpper(asset.blockchain) # "FIAT" THEN NoString
        ELSE IF Len(parts) # 2 THEN NoString
        ELSE IF ToUpper(parts[2]) # "USD" THEN NoString
        ELSE Some(ToUpper(parts[1]))

\* PolygonPriceApi::is_supported
PolygonIsSupported(asset) == extract_source_currency(asset).some

\* from_currency_ticker_names of PolygonPriceApi::get_prices
from_currency_ticker_names(assets) ==
    LET supported == SelectSeq(assets, PolygonIsSupported)
    IN  [i \in 1..Len(supported) |->
            currency_to_ticker(extract_source_currency(supported[i]).v)]

\* ticker_to_asset_map.get(ticker): the last asset inserted under the ticker
ticker_to_asset(assets, ticker) ==
    LET hits == {i \in 1..Len(assets) :
                    /\ PolygonIsSupported(assets[i])
                    /\ currency_to_ticker(extract_source_currency(assets[i]).v) = ticker}
    IN  IF hits = {} THEN [some |-> FALSE, v |-> AssetSpecifier("", "")]
        ELSE Some(assets[CHOOSE i \in hits : \A j \in hits : j <= i])

\* the body of the loop over quotes: the quotations of one ticker (none or one)
PolygonTickerQuotation(assets, ticker) ==
    LET asset == ticker_to_asset(assets, ticker.ticker_name)
        price == IF DecGtZero(ticker.b) THEN ticker.b ELSE ticker.c
    IN  IF ~asset.some THEN <<>>
        ELSE IF DecIsZero(price) THEN <<>>
        ELSE <<Quotation(asset.v.symbol, asset.v.symbol, "FIAT", price)>>

RECURSIVE PolygonTickerQuotations(_, _)
PolygonTickerQuotations(assets, quotes) ==
    IF quotes = <<>> THEN <<>>
    ELSE PolygonTickerQuotation(assets, quotes[1])
            \o PolygonTickerQuotations(assets, Tail(quotes))

\* PolygonPriceApi::get_prices; response is the outcome of client.all_tickers,
\* its tickers in the iteration order of the returned HashMap
PolygonGetPrices(assets, response) ==
    LET names == from_currency_ticker_names(assets)
        usd   == IF currency_to_ticker("USD") \in Range(names)
                 THEN <<Quotation("USD-USD", "USD-USD", "FIAT", DecOne)>>
                 ELSE <<>>
    IN  IF ~response.ok THEN Err
        ELSE Ok(usd \o PolygonTickerQuotations(assets, response.v))

-----------------------------------------------------------------------------
(* Generic Market Source, api/coingecko.rs *)

\* CoingeckoPriceApi::convert_to_coingecko_id
convert_to_coingecko_id(asset) ==
    LET k == <<asset.blockchain, asset.symbol>>
    IN  CASE k = <<"Pendulum", "PEN">>  -> Some("pendulum")
          [] k = <<"Polkadot", "DOT">>  -> Some("polkadot")
          [] k = <<"Kusama", "kusama">> -> Some("kusama")
          [] k = <<"Astar", "ASTR">>    -> Some("astar")
          [] k = <<"Bifrost", "BNC">>   -> Some("bifrost-native-coin")
          [] k = <<"Bifrost", "vDOT">>  -> Some("voucher-dot")
          [] k = <<"HydraDX", "HDX">>   -> Some("hydration")
          [] k = <<"Moonbeam", "GLMR">> -> Some("moonbeam")
          [] k = <<"Polkadex", "PDEX">> -> Some("polkadex")
          [] k = <<"Stellar", "XLM">>   -> Some("stellar")
          [] OTHER                      -> NoString

\* CoingeckoPriceApi::is_supported
CoingeckoIsSupported(asset) == convert_to_coingecko_id(asset).some

\* the ids of the simple-price query
coingecko_ids(assets) ==
    LET mapped == SelectSeq(assets, CoingeckoIsSupported)
    IN  [i \in 1..Len(mapped) |-> convert_to_coingecko_id(mapped[i]).v]

\* price.usd.unwrap_or_default() and Decimal::from_f64: an absent usd is 0.0,
\* a value no Decimal holds (NaN, infinite, out of range) converts to None
CoingeckoPriceDecimal(price) ==
    IF ~price.usd.some THEN [some |-> TRUE, v |-> DecZero]
    ELSE IF ~price.usd.finite THEN [some |-> FALSE, v |-> DecZero]
    ELSE [some |-> TRUE, v |-> price.usd.v]

\* the closure of the filter_map over prices
CoingeckoQuotation(assets, entry) ==
    LET hits  == {i \in 1..Len(assets) :
                    /\ convert_to_coingecko_id(assets[i]).some
                    /\ convert_to_coingecko_id(assets[i]).v = entry.id}
        asset == assets[CHOOSE i \in hits : \A j \in hits : i <= j]
        price == CoingeckoPriceDecimal(entry.price)
    IN  IF hits = {} THEN <<>>
        ELSE IF ~price.some THEN <<>>
        ELSE <<Quotation(asset.symbol, asset.symbol, asset.blockchain, price.v)>>

RECURSIVE CoingeckoQuotations(_, _)
CoingeckoQuotations(assets, prices) ==
    IF prices = <<>> THEN <<>>
    ELSE CoingeckoQuotation(assets, prices[1]) \o CoingeckoQuotations(assets, Tail(prices))

\* CoingeckoPriceApi::get_prices; response is the outcome of client.price
CoingeckoGetPrices(assets, response) ==
    IF ~response.ok THEN Err
    ELSE Ok(CoingeckoQuotations(assets, response.v))

-----------------------------------------------------------------------------
(* Custom/Direct Sources, api/custom/ *)

\* AmpePriceView::supports
AmpeSupports(asset) ==
    /\ ToUpper(asset.blockchain) = ToUpper("Amplitude")
    /\ ToUpper(asset.symbol) = ToUpper("AMPE")

\* ArsBluePriceView::supports
ArsBlueSupports(asset) ==
    /\ ToUpper(asset.blockchain) = ToUpper("FIAT")
    /\ ToUpper(asset.symbol) = ToUpper("ARS-USD")

\* AmpePriceView::get_price; response is the outcome of the GraphQL request,
\* Ok with eth_price
AmpeGetPrice(response) ==
    IF ~response.ok THEN CustomError("Failed to send request")
    ELSE Ok(Quotation("AMPE", "AMPE", "Amplitude", response.v))

\* variant: a quote of zero is answered with an error
ArsBlueGetPriceUnguarded(response) ==
    LET recip == DecCheckedRecip(response.v)
    IN  IF ~response.ok THEN CustomError("Failed to get price")
        ELSE IF ~recip.some THEN CustomError("Division by zero")
        ELSE Ok(Quotation("ARS-USD", "ARS-USD", "FIAT", recip.v))

\* ArsBluePriceView::get_price; response is the outcome of the Binance
\* USDTARS query, Ok with its price
ArsBlueGetPrice(response) ==
    LET recip == DecCheckedRecip(response.v)
        ars_usdt_price == IF recip.some THEN recip.v ELSE DecZero
    IN  IF ~response.ok THEN CustomError("Failed to get price")
        ELSE Ok(Quotation("ARS-USD", "ARS-USD", "FIAT", ars_usdt_price))

\* BrlBluePriceView::supports (api/custom/brl.rs)
BrlBlueSupports(asset) ==
    /\ ToUpper(asset.blockchain) = ToUpper("FIAT")
    /\ ToUpper(asset.symbol) = ToUpper("BRL-USD")

\* const BPS_REDUCTION
BPS_REDUCTION == 5

\* p.checked_sub(p * Decimal::from(BPS_REDUCTION) / Decimal::from(10_000))
\* .unwrap_or(zero): p less its (10_000 / BPS_REDUCTION)-th part, which one
\* limb of fraction more holds exactly
DecReduceBps(p) ==
    LET limbs == p.int \o p.frac \o <<0>>
        part  == DivStep(limbs, 1, 0, 10000 \div BPS_REDUCTION)
        diff  == SubAligned(limbs, part, Len(limbs), 0)
    IN  [neg  |-> p.neg /\ ~IsZeroLimbs(diff),
         int  |-> Strip(SubSeq(diff, 1, Len(p.int))),
         frac |-> TrimRight(SubSeq(diff, Len(p.int) + 1, Len(diff)))]

\* BrlBluePriceView::get_price; response is the outcome of the Binance
\* USDTBRL query, Ok with its price
BrlBlueGetPrice(response) ==
    LET recip == DecCheckedRecip(response.v)
        brl_usdt_price == IF recip.some THEN recip.v ELSE DecZero
    IN  IF ~response.ok THEN CustomError("Failed to get price")
        ELSE Ok(Quotation("BRL-USD", "BRL-USD", "FIAT", DecReduceBps(brl_usdt_price)))

\* CustomPriceApi::new: the registry, in registration order
CustomApis == <<"ampe", "arsb">>

ApiSupports(api, asset) ==
    CASE api = "ampe" -> AmpeSupports(asset)
      [] api = "arsb" -> ArsBlueSupports(asset)

ApiGetPrice(api, response) ==
    CASE api = "ampe" -> AmpeGetPrice(response)
      [] api = "arsb" -> ArsBlueGetPrice(response)

\* CustomPriceApi::get_supported_api: the first api that supports the asset
get_supported_api(asset) ==
    LET hits == {i \in 1..Len(CustomApis) : ApiSupports(CustomApis[i], asset)}
    IN  IF hits = {} THEN NoString
        ELSE Some(CustomApis[CHOOSE i \in hits : \A j \in hits : i <= j])

\* CustomPriceApi::is_supported
CustomIsSupported(asset) == get_supported_api(asset).some

\* the upstreams CustomPriceApi::get_price reaches: that of the supported api
CustomUpstreamCalls(asset) ==
    LET api == get_supported_api(asset)
    IN  IF ~api.some THEN <<>> ELSE <<api.v>>

\* variant: an asset no api supports is handed to the first api
CustomGetPriceFallback(asset, responses) ==
    LET api == get_supported_api(asset)
    IN  IF ~api.some THEN ApiGetPrice(CustomApis[1], responses[CustomApis[1]])
        ELSE ApiGetPrice(api.v, responses[api.v])

\* CustomPriceApi::get_price; responses gives each feed's upstream outcome
CustomGetPrice(asset, responses) ==
    LET api == get_supported_api(asset)
    IN  IF ~api.some THEN CustomError("Unsupported asset")
        ELSE ApiGetPrice(api.v, responses[api.v])

-----------------------------------------------------------------------------
(* Dispatcher, api/mod.rs *)

\* PriceApiImpl::get_fiat_quotations
get_fiat_quotations(assets, response) ==
    LET fiat_assets == SelectSeq(assets, LAMBDA asset : ToUpper(asset.blockchain) = "FIAT")
    IN  PolygonGetPrices(fiat_assets, response)

\* the tickers get_fiat_quotations has PolygonPriceApi::get_prices hand to
\* client.all_tickers; the call is made whatever the list holds
all_tickers_request(assets) ==
    LET fiat_assets == SelectSeq(assets, LAMBDA asset : ToUpper(asset.blockchain) = "FIAT")
    IN  Some(from_currency_ticker_names(fiat_assets))

\* the ids get_crypto_quotations has CoingeckoPriceApi::get_prices hand to
\* client.price
coingecko_request(assets) ==
    LET crypto_assets == SelectSeq(assets, LAMBDA asset : ToUpper(asset.blockchain) = "CRYPTO")
    IN  coingecko_ids(crypto_assets)

\* PriceApiImpl::get_crypto_quotations
get_crypto_quotations(assets, response) ==
    LET crypto_assets == SelectSeq(assets, LAMBDA asset : ToUpper(asset.blockchain) = "CRYPTO")
    IN  CoingeckoGetPrices(crypto_assets, response)

RECURSIVE CustomLoop(_, _, _)
\* the loop of get_custom_quotations over custom_assets: `?` returns the first
\* error and drops the quotations pushed so far
CustomLoop(custom_assets, responses, quotations) ==
    IF custom_assets = <<>> THEN Ok(quotations)
    ELSE LET quotation == CustomGetPrice(custom_assets[1], responses)
         IN  IF ~quotation.ok THEN quotation
             ELSE CustomLoop(Tail(custom_assets), responses, Append(quotations, quotation.v))

\* PriceApiImpl::get_custom_quotations
get_custom_quotations(assets, responses) ==
    CustomLoop(SelectSeq(assets, CustomIsSupported), responses, <<>>)

RECURSIVE CustomCallLog(_, _)
\* the CustomPriceApi::get_price calls the loop makes before it returns, each
\* with its asset and what it returned
CustomCallLog(custom_assets, responses) ==
    IF custom_assets = <<>> THEN <<>>
    ELSE LET quotation == CustomGetPrice(custom_assets[1], responses)
         IN  <<[asset |-> custom_assets[1], result |-> quotation]>>
                \o (IF quotation.ok THEN CustomCallLog(Tail(custom_assets), responses)
                    ELSE <<>>)

\* one request to an upstream provider
Request(provider, query) == [provider |-> provider, query |-> query]

\* the upstream requests behind the get_price calls of get_custom_quotations
CustomRequests(calls) ==
    [i \in 1..Len(calls) |-> Request(get_supported_api(calls[i].asset).v, <<>>)]

\* if let Ok(quotes) = result { quotations.extend(quotes) }
ExtendIfOk(quotations, result) ==
    IF result.ok THEN quotations \o result.v ELSE quotations

\* variant: the results are collected with `?`, as the join_all variant left in
\* the comment does
GetQuotationsReturnTry(quotations, fiat, crypto, custom) ==
    IF fiat.ok /\ crypto.ok /\ custom.ok THEN Ok(quotations) ELSE Err

\* the value get_quotations returns: Ok(quotations), whatever the three results
GetQuotationsReturn(quotations, fiat, crypto, custom) == Ok(quotations)

\* Result::unwrap_or_default
unwrap_or_default(result) == IF result.ok THEN result.v ELSE <<>>

-----------------------------------------------------------------------------
(* Snapshot Storage, storage.rs *)

\* variant: the storage is constructed with a record
PreloadedMap ==
    [k \in {<<"FIAT", "EUR-USD">>} |->
        [name |-> "EUR-USD", symbol |-> "EUR-USD", blockchain |-> "FIAT",
         price |-> <<1, 0, 0>>, supply |-> 0]]

\* CoinInfoStorage::default: the empty map
EmptyMap == [k \in {} |-> 0]

\* variant: the records are inserted into the stored map
replace_merge(self, currencies) ==
    LET keys == {Key(currencies[i]) : i \in 1..Len(currencies)}
        last(k) == CHOOSE i \in 1..Len(currencies) :
                      /\ Key(currencies[i]) = k
                      /\ \A j \in 1..Len(currencies) : Key(currencies[j]) = k => j <= i
    IN  [k \in keys \cup DOMAIN self |->
            IF k \in keys THEN currencies[last(k)] ELSE self[k]]

\* variant: the first record of a key is kept
replace_keep_first(self, currencies) ==
    LET keys == {Key(currencies[i]) : i \in 1..Len(currencies)}
        first(k) == CHOOSE i \in 1..Len(currencies) :
                       /\ Key(currencies[i]) = k
                       /\ \A j \in 1..Len(currencies) : Key(currencies[j]) = k => i <= j
    IN  [k \in keys |-> currencies[first(k)]]

\* CoinInfoStorage::replace_currencies_by_symbols: the new map, collected from
\* the list (a later record of the same key overwrites an earlier one); self
\* is the map stored before
replace_currencies_by_symbols(self, currencies) ==
    LET keys == {Key(currencies[i]) : i \in 1..Len(currencies)}
        last(k) == CHOOSE i \in 1..Len(currencies) :
                      /\ Key(currencies[i]) = k
                      /\ \A j \in 1..Len(currencies) : Key(currencies[j]) = k => j <= i
    IN  [k \in keys |-> currencies[last(k)]]

\* variant: the ArcSwap is loaded again for every specifier
LoadedMapReload(reference, current) == current

\* the map the closure of get_currencies_by_blockchains_and_symbols reads: the
\* reference loaded once before the iteration, not the map current by then
LoadedMap(reference, current) == reference

\* variant: a specifier without a record is answered with an empty record
FilterMapItemOrDefault(reference, spec) ==
    IF Key(spec) \in DOMAIN reference THEN <<reference[Key(spec)]>>
    ELSE <<[name |-> "", symbol |-> "", blockchain |-> "", price |-> <<>>, supply |-> 0]>>

\* the closure of the filter_map: reference.get(&(blockchain, symbol))
FilterMapItem(reference, spec) ==
    IF Key(spec) \in DOMAIN reference THEN <<reference[Key(spec)]>> ELSE <<>>

RECURSIVE Lookup(_, _)
\* get_currencies_by_blockchains_and_symbols on one map
Lookup(reference, blockchain_and_symbols) ==
    IF blockchain_and_symbols = <<>> THEN <<>>
    ELSE FilterMapItem(reference, blockchain_and_symbols[1])
            \o Lookup(reference, Tail(blockchain_and_symbols))

-----------------------------------------------------------------------------
(* Update Scheduler, price_updater.rs *)

\* variant: a plain subtraction
plain_sub(interval, elapsed) == interval - elapsed

\* update_interval.saturating_sub(time_elapsed.elapsed())
saturating_sub(interval, elapsed) ==
    IF elapsed >= interval THEN 0 ELSE interval - elapsed

RECURSIVE ConvertAll(_)
\* the for_each of update_prices: the CoinInfos pushed, or "panic" when a
\* conversion panics
ConvertAll(quotations) ==
    IF quotations = <<>> THEN [tag |-> "ok", v |-> <<>>]
    ELSE LET head == convert_to_coin_info(quotations[1])
             rest == ConvertAll(Tail(quotations))
         IN  IF head.tag = "panic" THEN [tag |-> "panic", v |-> <<>>]
             ELSE IF rest.tag = "panic" THEN rest
             ELSE [tag |-> "ok",
                   v   |-> (IF head.tag = "ok" THEN <<head.v>> ELSE <<>>) \o rest.v]

-----------------------------------------------------------------------------
(* The inputs of the model: configured universes and upstream responses *)

MaxInterval == 2
MaxElapsed == 3

ARS == AssetSpecifier("FIAT", "ARS-USD")
AMPE == AssetSpecifier("Amplitude", "AMPE")
EUR == AssetSpecifier("FIAT", "EUR-USD")
DOT == AssetSpecifier("Polkadot", "DOT")
BTC == AssetSpecifier("Bitcoin", "BTC")
USD == AssetSpecifier("FIAT", "USD-USD")

\* universe entries in lower case; the sources match them ignoring case
brl == AssetSpecifier("fiat", "brl-usd")
ampe == AssetSpecifier("amplitude", "ampe")

\* supported_currencies in the iteration order of the HashSet
Universes ==
    { <<ARS, AMPE, EUR, DOT>>, <<AMPE, ARS>>, <<AMPE, EUR>>, <<USD, EUR>>, <<USD>>,
      <<brl, ampe>> }

\* the universes of the specification with a reader
ReadUniverses == { <<AMPE, EUR>> }

\* the requests of the reader
LookupRequests == { <<>>, <<BTC>>, <<AMPE, EUR>>, <<EUR, BTC, AMPE>> }

Bid == Dec(<<1>>, <<80000>>)
Close == Dec(<<1>>, <<70000>>)

\* a previous close below zero, as the JSON of the provider may carry
NegativeClose == NegDec(<<1>>, <<60000>>)

TickerValues == { [b |-> Bid, c |-> Close], [b |-> DecZero, c |-> Close],
                  [b |-> DecZero, c |-> DecZero], [b |-> DecZero, c |-> NegativeClose] }

Tickers(name) == { [ticker_name |-> name, b |-> t.b, c |-> t.c] : t \in TickerValues }

\* outcomes of PolygonClient::all_tickers
PolygonResponses ==
    {Err}
      \cup {Ok(<<>>)}
      \cup {Ok(<<t>>) : t \in Tickers("C:ARSUSD") \cup Tickers("C:EURUSD")
                                \cup Tickers("C:BRLUSD")}
      \cup {Ok(<<t, u>>) : t \in Tickers("C:ARSUSD"), u \in Tickers("C:EURUSD")}
      \cup {Ok(<<u, t>>) : t \in Tickers("C:ARSUSD"), u \in Tickers("C:EURUSD")}

UsdOf(d) == [usd |-> [some |-> TRUE, finite |-> TRUE, v |-> d]]

\* outcomes of CoingeckoClient::price
CoingeckoResponses ==
    { Err, Ok(<<[id |-> "polkadot", price |-> UsdOf(Dec(<<7>>, <<500000>>))]>>) }

\* outcomes of the AMPE GraphQL request: an error, eth_price 0.003482 and 10^18
AmpeResponses == { Err, Ok(Dec(<<>>, <<3482>>)), Ok(Dec(<<1, 0, 0, 0>>, <<>>)) }

\* outcomes of BinancePriceApi::get_price for USDTARS: an error, 0 and 1250
BinanceResponses == { Err, Ok(DecZero), Ok(Dec(<<1250>>, <<>>)) }

CustomResponses == [ampe : AmpeResponses, arsb : BinanceResponses]

\* the default value of supported_currencies, as main splits it at ',' and ':'
DefaultUniverse ==
    << AssetSpecifier("FIAT", "USD-USD"), AssetSpecifier("FIAT", "EUR-USD"),
       AssetSpecifier("FIAT", "BRL-USD"), AssetSpecifier("FIAT", "AUD-USD"),
       AssetSpecifier("FIAT", "NGN-USD"), AssetSpecifier("FIAT", "TZS-USD"),
       AssetSpecifier("Pendulum", "PEN"), AssetSpecifier("Amplitude", "AMPE"),
       AssetSpecifier("Polkadot", "DOT"), AssetSpecifier("Kusama", "KSM"),
       AssetSpecifier("Astar", "ASTR"), AssetSpecifier("Bifrost", "BNC"),
       AssetSpecifier("Bifrost", "vDOT"), AssetSpecifier("HydraDX", "HDX"),
       AssetSpecifier("Moonbeam", "GLMR"), AssetSpecifier("Polkadex", "PDEX"),
       AssetSpecifier("Stellar", "XLM") >>

\* the HashSet of the default universe in two iteration orders
DefaultUniverses ==
    { DefaultUniverse,
      [i \in 1..Len(DefaultUniverse) |-> DefaultUniverse[Len(DefaultUniverse) + 1 - i]] }

\* a snapshot ticker with a bid
BidTicker(name) == [ticker_name |-> name, b |-> Bid, c |-> Close]

\* outcomes of all_tickers for the default universe: an error, every currency
\* other than USD, and two of them
DefaultTickerResponses ==
    { Err,
      Ok(<<BidTicker("C:EURUSD"), BidTicker("C:BRLUSD"), BidTicker("C:AUDUSD"),
           BidTicker("C:NGNUSD"), BidTicker("C:TZSUSD")>>),
      Ok(<<BidTicker("C:TZSUSD"), BidTicker("C:EURUSD")>>) }

\* a simple-price entry with a usd price
UsdPrice(id) == [id |-> id, price |-> UsdOf(Dec(<<7>>, <<500000>>))]

\* outcomes of CoingeckoClient::price for the default universe: an error, the
\* prices of all ids of the allow-list, and the price of one
DefaultCoingeckoResponses ==
    { Err,
      Ok(<<UsdPrice("pendulum"), UsdPrice("polkadot"), UsdPrice("kusama"), UsdPrice("astar"),
           UsdPrice("bifrost-native-coin"), UsdPrice("voucher-dot"), UsdPrice("hydration"),
           UsdPrice("moonbeam"), UsdPrice("polkadex"), UsdPrice("stellar")>>),
      Ok(<<UsdPrice("polkadot")>>) }

-----------------------------------------------------------------------------
(* State *)

VARIABLES
    supported_currencies,  \* the configured universe, as the Vec update_prices collects
    update_interval,       \* the configured interval
    storage,               \* CoinInfoStorage.currencies_by_blockchain_and_symbol
    pc,                    \* where the spawned task of run_update_prices_loop is
    quotations,            \* get_quotations: the Vec being filled
    api_result,            \* update_prices: what get_quotations returned
    fiat_quotes,           \* get_quotations: result of get_fiat_quotations
    pg_request,            \* PolygonPriceApi::get_prices: the tickers asked of all_tickers
    crypto_quotes,         \* get_quotations: result of get_crypto_quotations
    custom_quotes,         \* get_quotations: result of get_custom_quotations
    cg_prices,             \* CoingeckoPriceApi::get_prices: what client.price returned
    custom_calls,          \* get_custom_quotations: the get_price calls made, with their outcome
    requests,              \* history: the requests sent to upstream providers in the cycle
    currencies,            \* update_prices: the CoinInfos handed to the storage
    elapsed,               \* time_elapsed.elapsed() read after update_prices
    sleep_for,             \* the Duration given to delay_for
    aged_out,              \* history: the keys the last replace removed from the map
    replaces,              \* history: the replace calls of the cycle begun last
    published,             \* history: the records handed to the last completed replace
    replaced,              \* history: a replace has completed since the process started
    rpc,                   \* where the reader (a request handler) is
    blockchain_and_symbols,\* reader: the specifiers asked for
    reference,             \* reader: the map loaded from the ArcSwap
    ridx,                  \* reader: the specifiers the iterator has consumed
    rresult,               \* reader: the CoinInfos collected
    input,                 \* converter caller: the Decimal handed to convert_decimal_to_u128
    called,                \* converter caller: the calls made with it
    output,                \* converter caller: what the first call returned
    output2,               \* converter caller: what the second call returned
    probe,                 \* support check: the AssetSpecifier a source is asked about
    source_currency,       \* support check: what extract_source_currency returned
    mock,                  \* tests: MockDia.quotation, the table of the mocked PriceApi
    upstream,              \* feed caller: what each feed's upstream answers
    feed_price,            \* feed caller: what CustomPriceApi::get_price returned
    upstream_calls,        \* feed caller: the upstreams that call reached
    view_price,            \* feed caller: what a view's own get_price returned
    polygon_quotes,        \* fiat caller: what client.all_tickers returned
    polygon_prices         \* fiat caller: what PolygonPriceApi::get_prices returned

vars == <<supported_currencies, update_interval, storage, pc, quotations, api_result,
          fiat_quotes, pg_request, crypto_quotes, custom_quotes, cg_prices, custom_calls,
          requests, currencies,
          elapsed, sleep_for, aged_out, replaces, published, replaced, rpc,
          blockchain_and_symbols, reference, ridx, rresult, input, called, output,
          output2, probe, source_currency, mock, upstream, feed_price, upstream_calls,
          view_price, polygon_quotes, polygon_prices>>

polygon == <<polygon_quotes, polygon_prices>>
config == <<supported_currencies, update_interval, mock, polygon>>
cycle_locals == <<quotations, api_result, fiat_quotes, pg_request, crypto_quotes, custom_quotes,
                  cg_prices, custom_calls, requests>>
timing == <<elapsed, sleep_for>>
reader == <<rpc, blockchain_and_symbols, reference, ridx, rresult>>
converter == <<input, called, output, output2>>
feed == <<upstream, feed_price, upstream_calls, view_price>>
support == <<probe, source_currency, feed>>
writer == <<storage, pc, cycle_locals, currencies, timing, aged_out, replaces,
           published, replaced>>

\* no call of the converter outside a cycle has been made
NotCalled == [tag |-> "none", v |-> <<>>]

\* all_tickers has not been called in this cycle
NoRequest == [some |-> FALSE, v |-> <<>>]

\* no source has been asked about an asset
NotAsked == [some |-> FALSE, v |-> "<not asked>"]

\* no feed has been called outside a cycle
FeedIdle ==
    /\ feed_price = NotCalled
    /\ upstream_calls = <<>>
    /\ view_price = NotCalled

SupportIdle ==
    /\ probe = AssetSpecifier("", "")
    /\ source_currency = NotAsked
    /\ upstream = [ampe |-> Err, arsb |-> Err, brl |-> Err]
    /\ FeedIdle

ConverterIdle ==
    /\ input = DecZero
    /\ called = 0
    /\ output = NotCalled
    /\ output2 = NotCalled

\* the storage, the task of the loop and the reader after they are set up; no
\* call of the Fiat Conversion Source outside a cycle
InitTask ==
    /\ polygon_quotes = Err
    /\ polygon_prices = NotCalled
    /\ storage = EmptyMap
    /\ pc = "loop"
    /\ quotations = <<>>
    /\ fiat_quotes = Err
    /\ pg_request = NoRequest
    /\ crypto_quotes = Err
    /\ custom_quotes = Err
    /\ api_result = Err
    /\ cg_prices = Err
    /\ custom_calls = <<>>
    /\ requests = <<>>
    /\ currencies = <<>>
    /\ elapsed = 0
    /\ sleep_for = 0
    /\ aged_out = {}
    /\ replaces = 0
    /\ published = <<>>
    /\ replaced = FALSE
    /\ rpc = "idle"
    /\ blockchain_and_symbols = <<>>
    /\ reference = EmptyMap
    /\ ridx = 0
    /\ rresult = <<>>

\* main: the configuration of the arguments and the PriceApiImpl, no mock
InitLoop ==
    /\ supported_currencies \in Universes
    /\ update_interval \in 0..MaxInterval
    /\ mock = EmptyMap
    /\ InitTask

Init == InitLoop /\ ConverterIdle /\ SupportIdle

\* what all_tickers may return to the configured universe
PolygonAnswers ==
    IF supported_currencies \in DefaultUniverses THEN DefaultTickerResponses
    ELSE PolygonResponses

\* what the simple-price query may return to the configured universe
CoingeckoAnswers ==
    IF supported_currencies \in DefaultUniverses THEN DefaultCoingeckoResponses
    ELSE CoingeckoResponses

\* variant: the cycle empties the stored map before it fetches
StartCycleClearing ==
    /\ pc = "loop"
    /\ pc' = "fiat"
    /\ quotations' = <<>>
    /\ fiat_quotes' = Err
    /\ pg_request' = NoRequest
    /\ crypto_quotes' = Err
    /\ custom_quotes' = Err
    /\ api_result' = Err
    /\ cg_prices' = Err
    /\ custom_calls' = <<>>
    /\ requests' = <<>>
    /\ currencies' = <<>>
    /\ elapsed' = 0
    /\ sleep_for' = 0
    /\ aged_out' = {}
    /\ replaces' = 0
    /\ storage' = EmptyMap
    /\ UNCHANGED <<config, converter, support, published, replaced, reader>>

\* loop { let time_elapsed = Instant::now(); update_prices(..) up to the first await
StartCycle ==
    /\ pc = "loop"
    /\ pc' = "fiat"
    /\ quotations' = <<>>
    /\ fiat_quotes' = Err
    /\ pg_request' = NoRequest
    /\ crypto_quotes' = Err
    /\ custom_quotes' = Err
    /\ api_result' = Err
    /\ cg_prices' = Err
    /\ custom_calls' = <<>>
    /\ requests' = <<>>
    /\ currencies' = <<>>
    /\ elapsed' = 0
    /\ sleep_for' = 0
    /\ aged_out' = {}
    /\ replaces' = 0
    /\ UNCHANGED <<config, converter, support, storage, published, replaced, reader>>

\* get_quotations: get_fiat_quotations(..).await and its if let
FiatQuotations ==
    /\ pc = "fiat"
    /\ \E response \in PolygonAnswers :
          LET result == get_fiat_quotations(supported_currencies, response)
          IN  /\ fiat_quotes' = result
              /\ pg_request' = all_tickers_request(supported_currencies)
              /\ quotations' = ExtendIfOk(quotations, result)
    /\ requests' = Append(requests,
                          Request("polygon", all_tickers_request(supported_currencies).v))
    /\ pc' = "crypto"
    /\ UNCHANGED <<config, converter, support,
                   storage, api_result, crypto_quotes, custom_quotes, cg_prices,
                   custom_calls, currencies, timing, aged_out, replaces, published,
                   replaced, reader>>

\* get_quotations: get_crypto_quotations(..).await and its if let
CryptoQuotations ==
    /\ pc = "crypto"
    /\ \E response \in CoingeckoAnswers :
          LET result == get_crypto_quotations(supported_currencies, response)
          IN  /\ cg_prices' = response
              /\ crypto_quotes' = result
              /\ quotations' = ExtendIfOk(quotations, result)
    /\ requests' = Append(requests,
                          Request("coingecko", coingecko_request(supported_currencies)))
    /\ pc' = "custom"
    /\ UNCHANGED <<config, converter, support,
                   storage, api_result, fiat_quotes, pg_request, custom_quotes, custom_calls,
                   currencies, timing, aged_out, replaces, published, replaced, reader>>

\* get_quotations: get_custom_quotations(..).await, its if let and Ok(quotations)
CustomQuotations ==
    /\ pc = "custom"
    /\ \E responses \in CustomResponses :
          LET result == get_custom_quotations(supported_currencies, responses)
          IN  /\ custom_quotes' = result
              /\ custom_calls' = CustomCallLog(SelectSeq(supported_currencies, CustomIsSupported),
                                               responses)
              /\ requests' = requests \o CustomRequests(
                                  CustomCallLog(SelectSeq(supported_currencies,
                                                          CustomIsSupported), responses))
              /\ quotations' = ExtendIfOk(quotations, result)
              /\ api_result' = GetQuotationsReturn(ExtendIfOk(quotations, result),
                                                   fiat_quotes, crypto_quotes, result)
    /\ pc' = "convert"
    /\ UNCHANGED <<config, converter, support,
                   storage, fiat_quotes, pg_request, crypto_quotes, cg_prices, currencies,
                   timing, aged_out, replaces, published, replaced, reader>>

\* update_prices from the return of get_quotations: the conversions, the
\* replace, then the loop's delay_for(update_interval - elapsed)
UpdatePrices ==
    /\ pc = "convert"
    /\ LET converted == ConvertAll(unwrap_or_default(api_result))
       IN  /\ converted.tag = "ok"
           /\ currencies' = converted.v
           /\ storage' = replace_currencies_by_symbols(storage, converted.v)
           /\ aged_out' = DOMAIN storage \ DOMAIN storage'
           /\ replaces' = replaces + 1
           /\ published' = converted.v
           /\ replaced' = TRUE
    /\ \E e \in 0..MaxElapsed :
          /\ elapsed' = e
          /\ sleep_for' = saturating_sub(update_interval, e)
    /\ pc' = "sleep"
    /\ UNCHANGED <<config, converter, support, cycle_locals, reader>>

\* a conversion panics: the spawned task ends, nothing is stored
UpdatePricesPanic ==
    /\ pc = "convert"
    /\ ConvertAll(unwrap_or_default(api_result)).tag = "panic"
    /\ pc' = "panicked"
    /\ UNCHANGED <<config, converter, support,
                   storage, cycle_locals, currencies, timing, aged_out, replaces,
                   published, replaced, reader>>

\* delay_for completes: back to the top of the loop
Wake ==
    /\ pc = "sleep"
    /\ pc' = "loop"
    /\ UNCHANGED <<config, converter, support,
                   storage, cycle_locals, currencies, timing, aged_out, replaces,
                   published, replaced, reader>>

\* variant: the map is behind a lock the writer holds for the whole cycle
LoadUnderLock ==
    /\ rpc = "idle"
    /\ pc \notin {"fiat", "crypto", "custom", "convert"}
    /\ \E specs \in LookupRequests : blockchain_and_symbols' = specs
    /\ reference' = storage
    /\ ridx' = 0
    /\ rresult' = <<>>
    /\ rpc' = "reading"
    /\ UNCHANGED <<config, converter, support, writer>>

\* get_currencies_by_blockchains_and_symbols: the load of the ArcSwap
Load ==
    /\ rpc = "idle"
    /\ \E specs \in LookupRequests : blockchain_and_symbols' = specs
    /\ reference' = storage
    /\ ridx' = 0
    /\ rresult' = <<>>
    /\ rpc' = "reading"
    /\ UNCHANGED <<config, converter, support, writer>>

\* one step of the iterator: the closure on the next specifier
ReadNext ==
    /\ rpc = "reading"
    /\ ridx < Len(blockchain_and_symbols)
    /\ ridx' = ridx + 1
    /\ rresult' = rresult \o FilterMapItem(LoadedMap(reference, storage),
                                           blockchain_and_symbols[ridx + 1])
    /\ UNCHANGED <<config, converter, support, writer, rpc, blockchain_and_symbols, reference>>

\* collect() returns the Vec
Return ==
    /\ rpc = "reading"
    /\ ridx = Len(blockchain_and_symbols)
    /\ rpc' = "done"
    /\ UNCHANGED <<config, converter, support,
                   writer, blockchain_and_symbols, reference, ridx, rresult>>

\* the handler has answered; the next request may come
Answered ==
    /\ rpc = "done"
    /\ rpc' = "idle"
    /\ blockchain_and_symbols' = <<>>
    /\ reference' = EmptyMap
    /\ ridx' = 0
    /\ rresult' = <<>>
    /\ UNCHANGED <<config, converter, support, writer>>

Next ==
    \/ StartCycle
    \/ FiatQuotations
    \/ CryptoQuotations
    \/ CustomQuotations
    \/ UpdatePrices
    \/ UpdatePricesPanic
    \/ Wake

Spec == Init /\ [][Next]_vars

\* the scheduler together with a reader of the storage
InitRead ==
    /\ InitLoop
    /\ ConverterIdle
    /\ SupportIdle
    /\ supported_currencies \in ReadUniverses
    /\ update_interval = 1

NextRead ==
    \/ Next
    \/ Load
    \/ ReadNext
    \/ Return
    \/ Answered

SpecRead == InitRead /\ [][NextRead]_vars

-----------------------------------------------------------------------------
(* The Fixed-Point Converter on its own: a caller hands one Decimal to       *)
(* convert_decimal_to_u128, twice                                            *)

\* a Decimal holds at most 28 fractional digits and a mantissa below 2^96;
\* the model keeps to four 6-digit groups
IsDecimal(d) ==
    /\ Len(d.frac) <= 4
    /\ TrimRight(d.frac) = d.frac
    /\ Strip(d.int) = d.int
    /\ ~GeqLimbs(Strip(d.int \o d.frac), DecimalMantissaLimit)
    /\ d.neg => ~DecIsZero(d)

\* integer parts: 0, 1, 123456789, the largest whose product with 10^12 is
\* below 2^96, the next one, and 10^18
IntParts ==
    { <<>>, <<1>>, <<123, 456789>>, <<79228, 162514, 264337>>,
      <<79228, 162514, 264338>>, <<1, 0, 0, 0>> }

\* fractional digits: none, the 12th, the 18th, 0.053712327,
\* 0.123456789012345, eighteen and twenty-four nines
FracParts ==
    { <<>>, <<0, 1>>, <<0, 0, 1>>, <<53712, 327000>>, <<123456, 789012, 345000>>,
      <<999999, 999999, 999999>>, <<999999, 999999, 999999, 999999>> }

\* negative prices have a small integer part
ConvertInputs ==
    {d \in [neg : {FALSE}, int : IntParts, frac : FracParts] : IsDecimal(d)}
      \cup {d \in [neg : {TRUE}, int : {<<>>, <<1>>, <<123, 456789>>}, frac : FracParts] :
               IsDecimal(d)}

InitConvert ==
    /\ InitLoop
    /\ supported_currencies \in ReadUniverses
    /\ update_interval = 1
    /\ input \in ConvertInputs
    /\ called = 0
    /\ output = NotCalled
    /\ output2 = NotCalled
    /\ SupportIdle

\* variant: the call takes the fractional part out of its argument
ConvertInPlace ==
    /\ called = 0
    /\ output' = convert_decimal_to_u128(input)
    /\ input' = DecTrunc(input)
    /\ called' = 1
    /\ UNCHANGED <<config, writer, reader, support, output2>>

\* the first call
Convert ==
    /\ called = 0
    /\ output' = convert_decimal_to_u128(input)
    /\ called' = 1
    /\ UNCHANGED <<config, writer, reader, support, input, output2>>

\* the second call, by a caller the first call did not abort
ConvertAgain ==
    /\ called = 1
    /\ output.tag # "panic"
    /\ output2' = convert_decimal_to_u128(input)
    /\ called' = 2
    /\ UNCHANGED <<config, writer, reader, support, input, output>>

NextConvert ==
    \/ Convert
    \/ ConvertAgain

SpecConvert == InitConvert /\ [][NextConvert]_vars

-----------------------------------------------------------------------------
(* The support predicates on their own: a source is asked about one asset    *)

ProbeBlockchains ==
    {"FIAT", "fiat", "Fiat", "CRYPTO", "Amplitude", "amplitude", "Polkadot", "USD"}

ProbeSymbols ==
    {"BRL-USD", "USD-USD", "ARS-USD", "EUR-USD", "BRL-EUR", "BRLUSD", "BRL-USD-EUR",
     "BRL--USD", "-USD", "brl-usd", "BRL-usd", "USD", "AMPE", "ampe", "DOT"}

Probes == {AssetSpecifier(b, sym) : b \in ProbeBlockchains, sym \in ProbeSymbols}

InitSupport ==
    /\ InitLoop
    /\ supported_currencies \in ReadUniverses
    /\ update_interval = 1
    /\ ConverterIdle
    /\ probe \in Probes
    /\ source_currency = NotAsked
    /\ upstream = [ampe |-> Err, arsb |-> Err, brl |-> Err]
    /\ FeedIdle

\* PolygonPriceApi::is_supported / extract_source_currency on the asset
ExtractSourceCurrency ==
    /\ source_currency = NotAsked
    /\ source_currency' = extract_source_currency(probe)
    /\ UNCHANGED <<config, writer, reader, converter, probe, feed>>

NextSupport ==
    \/ ExtractSourceCurrency

SpecSupport == InitSupport /\ [][NextSupport]_vars

-----------------------------------------------------------------------------
(* The Custom/Direct registry and its views on their own: a caller asks     *)
(* CustomPriceApi for the price of one asset, or a view for its price, as   *)
(* the tests of api/custom do.                                              *)

\* outcomes of the Binance queries of the cross-rate views: an error, 0, 1250, 4
ViewResponses == BinanceResponses \cup { Ok(Dec(<<4>>, <<>>)) }

FeedResponses == [ampe : AmpeResponses, arsb : ViewResponses, brl : ViewResponses]

\* the views with a file in api/custom
Views == {"ampe", "arsb", "brl"}

\* <View>::get_price()
ViewGetPrice(view, response) ==
    CASE view = "ampe" -> AmpeGetPrice(response)
      [] view = "arsb" -> ArsBlueGetPrice(response)
      [] view = "brl"  -> BrlBlueGetPrice(response)

InitFeed ==
    /\ InitLoop
    /\ supported_currencies \in ReadUniverses
    /\ update_interval = 1
    /\ ConverterIdle
    /\ probe \in Probes
    /\ source_currency = NotAsked
    /\ upstream \in FeedResponses
    /\ FeedIdle

\* CustomPriceApi::get_price(&probe)
CustomPriceApiGetPrice ==
    /\ feed_price = NotCalled
    /\ feed_price' = CustomGetPrice(probe, upstream)
    /\ upstream_calls' = CustomUpstreamCalls(probe)
    /\ UNCHANGED <<config, writer, reader, converter, probe, source_currency, upstream,
                   view_price>>

\* <View>::new().get_price()
ViewPrice ==
    /\ view_price = NotCalled
    /\ \E view \in Views :
          view_price' = [view |-> view, result |-> ViewGetPrice(view, upstream[view])]
    /\ UNCHANGED <<config, writer, reader, converter, probe, source_currency, upstream,
                   feed_price, upstream_calls>>

NextFeed ==
    \/ CustomPriceApiGetPrice
    \/ ViewPrice

SpecFeed == InitFeed /\ [][NextFeed]_vars

-----------------------------------------------------------------------------
(* update_prices over the mocked PriceApi of the tests of price_updater.rs *)

ETH == AssetSpecifier("Ethereum", "ETH")
USDT == AssetSpecifier("Ethereum", "USDT")
USDC == AssetSpecifier("Ethereum", "USDC")
MXN == AssetSpecifier("FIAT", "MXN-USD")
ETHCase == AssetSpecifier("Ethereum", "ETHCase")

\* MockDia::new: the table of quotations, each with the given supply
MockDia(supply) ==
    (Key(BTC) :> QuotationWithSupply("BTC", "BTC", "Bitcoin", Dec(<<1>>, <<>>), supply))
    @@ (Key(ETH) :> QuotationWithSupply("ETH", "ETH", "Ethereum", Dec(<<1>>, <<>>), supply))
    @@ (Key(USDT) :> QuotationWithSupply("USDT", "USDT", "Ethereum",
                                         Dec(<<1>>, <<0, 1>>), supply))
    @@ (Key(USDC) :> QuotationWithSupply("USDC", "USDC", "Ethereum",
                                         Dec(<<123, 456789>>, <<123456, 789012, 345000>>),
                                         supply))
    @@ (Key(MXN) :> QuotationWithSupply("MXN-USD", "MXNUSD=X", NoBlockchain,
                                        Dec(<<>>, <<53712, 327000>>), supply))
    @@ (Key(USD) :> QuotationWithSupply("USD-USD", "USD-X", NoBlockchain, DecOne, supply))

\* the supply a quotation may carry: none, or 21 million
MockSupplies == { DecZero, Dec(<<21, 0>>, <<>>) }

\* the universes of the tests, in iteration orders of the HashSet
MockUniverses ==
    { <<>>, <<BTC, ETH, USDT, USDC>>, <<USDC, BTC, USDT, ETH>>, <<BTC, MXN>>, <<MXN, BTC>>,
      <<USD>>, <<BTC, ETHCase>>, <<ETHCase, BTC>>, <<BTC, USDC, USDT>>, <<ETHCase>> }

\* the assets of the tests
MockAssets == {BTC, ETH, USDT, USDC, MXN, USD, ETHCase,
               AssetSpecifier("Bitcoin", "BTCCash"), AssetSpecifier("Bitcoin", "123")}

RECURSIVE MockQuotations(_, _)
\* the loop of MockDia::get_quotations
MockQuotations(table, assets) ==
    IF assets = <<>> THEN <<>>
    ELSE (IF Key(assets[1]) \in DOMAIN table THEN <<table[Key(assets[1])]>> ELSE <<>>)
         \o MockQuotations(table, Tail(assets))

\* variant: the quotations of the whole table, whatever assets are asked for
MockGetQuotationsAll(table, assets) ==
    Ok(MockQuotations(table, <<BTC, ETH, USDT, USDC, MXN, USD>>))

\* MockDia::get_quotations
MockGetQuotations(table, assets) == Ok(MockQuotations(table, assets))

InitMock ==
    /\ supported_currencies \in MockUniverses
    /\ update_interval = 1
    /\ mock \in {MockDia(supply) : supply \in MockSupplies}
    /\ InitTask
    /\ ConverterIdle
    /\ SupportIdle

\* update_prices: api.get_quotations(supported_currencies).await with the mock
MockedGetQuotations ==
    /\ pc = "fiat"
    /\ api_result' = MockGetQuotations(mock, supported_currencies)
    /\ pc' = "convert"
    /\ UNCHANGED <<config, converter, support, storage, quotations, fiat_quotes, pg_request,
                   crypto_quotes, custom_quotes, cg_prices, custom_calls, requests,
                   currencies, timing, aged_out, replaces, published, replaced, reader>>

NextMock ==
    \/ StartCycle
    \/ MockedGetQuotations
    \/ UpdatePrices
    \/ Wake

SpecMock == InitMock /\ [][NextMock]_vars

\* a PriceApi whose get_quotations returns Err(..) for this cycle
FailingGetQuotations ==
    /\ pc = "fiat"
    /\ api_result' = Err
    /\ pc' = "convert"
    /\ UNCHANGED <<config, converter, support, storage, quotations, fiat_quotes, pg_request,
                   crypto_quotes, custom_quotes, cg_prices, custom_calls, requests,
                   currencies, timing, aged_out, replaces, published, replaced, reader>>

NextFailing ==
    \/ NextMock
    \/ FailingGetQuotations

SpecFailing == InitMock /\ [][NextFailing]_vars

-----------------------------------------------------------------------------
(* PolygonPriceApi::get_prices on its own, over what the provider may answer *)

BRL == AssetSpecifier("FIAT", "BRL-USD")

\* requested assets: USD alone and with another currency, two currencies, two
\* specifiers of one currency, and a universe with assets of other sources
PolygonUniverses ==
    { <<USD>>, <<USD, EUR>>, <<EUR, ARS>>, <<BRL, brl>>, <<ARS, AMPE, EUR, DOT>> }

\* ticker names a snapshot may carry; C:GBPUSD is never requested
TickerNames == {"C:USDUSD", "C:EURUSD", "C:ARSUSD", "C:BRLUSD", "C:GBPUSD"}

\* outcomes of PolygonClient::all_tickers: the HashMap has one ticker per name
TickerResponses ==
    {Err}
      \cup {Ok(<<>>)}
      \cup {Ok(<<t>>) : t \in UNION {Tickers(n) : n \in TickerNames}}
      \cup UNION {{Ok(<<t, u>>) : t \in Tickers(nm[1]), u \in Tickers(nm[2])} :
                     nm \in {x \in TickerNames \X TickerNames : x[1] # x[2]}}

InitPolygon ==
    /\ supported_currencies \in PolygonUniverses
    /\ update_interval = 1
    /\ mock = EmptyMap
    /\ InitTask
    /\ ConverterIdle
    /\ SupportIdle

\* get_fiat_quotations: self.polygon_price_api.get_prices(fiat_assets).await
PolygonPriceApiGetPrices ==
    /\ polygon_prices = NotCalled
    /\ \E response \in TickerResponses :
          /\ polygon_quotes' = response
          /\ polygon_prices' = get_fiat_quotations(supported_currencies, response)
    /\ UNCHANGED <<supported_currencies, update_interval, mock, converter, support, writer,
                   reader>>

NextPolygon == PolygonPriceApiGetPrices

SpecPolygon == InitPolygon /\ [][NextPolygon]_vars

-----------------------------------------------------------------------------
(* The loop as main starts it when no argument is given *)

\* main with the default values of DiaApiArgs: the default universe and an
\* update interval of 10 seconds
InitDefault ==
    /\ supported_currencies \in DefaultUniverses
    /\ update_interval = 10
    /\ mock = EmptyMap
    /\ InitTask
    /\ ConverterIdle
    /\ SupportIdle

SpecDefault == InitDefault /\ [][Next]_vars

-----------------------------------------------------------------------------
(* Properties *)

\* the Storage key a quotation is published under
QuotationKey(q) == <<IF q.blockchain = NoBlockchain THEN "FIAT" ELSE q.blockchain, q.symbol>>

KeysOf(records) == {Key(records[i]) : i \in 1..Len(records)}

\* the quotations a category result contributes
QuotesOf(result) == IF result.ok THEN result.v ELSE <<>>

\* the category an asset belongs to by priority: Custom/Direct, then Fiat
\* Conversion, then Generic Market
OwnedByFiat(a) == ~CustomIsSupported(a) /\ PolygonIsSupported(a)
OwnedByMarket(a) == ~CustomIsSupported(a) /\ ~PolygonIsSupported(a) /\ CoingeckoIsSupported(a)

Configured == Range(supported_currencies)

\* C1: when a cycle has completed, the keys of the stored map are exactly the
\* keys of the records that cycle converted, a lookup of any asset returns a
\* record iff that cycle converted one for it, and no key the replace removed
\* is still stored.
C1_ReplaceIsTotal ==
    pc \in {"sleep", "loop"} =>
        /\ DOMAIN storage = KeysOf(currencies)
        /\ \A a \in Configured \cup {BTC} :
              (Lookup(storage, <<a>>) # <<>>) <=> (Key(a) \in KeysOf(currencies))
        /\ \A k \in DOMAIN storage : storage[k] \in Range(currencies)
        /\ aged_out \cap DOMAIN storage = {}

\* a cycle has removed a key an earlier cycle published, and kept others
C1_Witness ==
    /\ pc = "sleep"
    /\ aged_out # {}
    /\ DOMAIN storage # {}
    /\ \A k \in aged_out : Lookup(storage, <<[blockchain |-> k[1], symbol |-> k[2]]>>) = <<>>

\* C2: a lookup that has returned holds the result of the lookup on one map,
\* the one it loaded, whatever replaces happened while it iterated.
C2_NoTornReads ==
    rpc = "done" => rresult = Lookup(reference, blockchain_and_symbols)

\* a lookup returned records of the map it loaded after a replace installed
\* another map
C2_Witness ==
    /\ rpc = "done"
    /\ rresult # <<>>
    /\ reference # storage
    /\ rresult # Lookup(storage, blockchain_and_symbols)

\* C3: get_quotations returns at most one quotation per asset.
C3_OneQuotationPerAsset ==
    pc = "convert" =>
        \A i, j \in 1..Len(api_result.v) :
            i # j => QuotationKey(api_result.v[i]) # QuotationKey(api_result.v[j])

\* C4: after a cycle, the stored record of an asset that both the Custom/Direct
\* and the Fiat Conversion category support is the conversion of the quotation
\* the Custom/Direct category returned in that cycle.
C4_HigherPriorityWins ==
    pc = "sleep" =>
        \A a \in Configured :
            (CustomIsSupported(a) /\ PolygonIsSupported(a) /\ Key(a) \in DOMAIN storage) =>
                /\ custom_quotes.ok
                /\ \E i \in 1..Len(custom_quotes.v) :
                      /\ QuotationKey(custom_quotes.v[i]) = Key(a)
                      /\ convert_to_coin_info(custom_quotes.v[i]).v = storage[Key(a)]

\* C5: after a cycle, an asset only one category supports has its record stored
\* when that category's call succeeded and returned a price for it.
C5_SingleCategoryPublished ==
    pc = "sleep" =>
        \A a \in Configured :
            /\ (/\ CoingeckoIsSupported(a) /\ ~CustomIsSupported(a) /\ ~PolygonIsSupported(a)
                /\ cg_prices.ok
                /\ \E i \in 1..Len(cg_prices.v) :
                      /\ cg_prices.v[i].id = convert_to_coingecko_id(a).v
                      /\ cg_prices.v[i].price.usd.some
                      /\ DecGtZero(cg_prices.v[i].price.usd.v))
                   => Key(a) \in DOMAIN storage
            /\ (/\ PolygonIsSupported(a) /\ ~CustomIsSupported(a) /\ ~CoingeckoIsSupported(a)
                /\ fiat_quotes.ok
                /\ \E i \in 1..Len(fiat_quotes.v) : QuotationKey(fiat_quotes.v[i]) = Key(a))
                   => Key(a) \in DOMAIN storage
            /\ (/\ CustomIsSupported(a) /\ ~PolygonIsSupported(a) /\ ~CoingeckoIsSupported(a)
                /\ custom_quotes.ok
                /\ \E i \in 1..Len(custom_quotes.v) : QuotationKey(custom_quotes.v[i]) = Key(a))
                   => Key(a) \in DOMAIN storage

\* the quotations of the custom feeds that answered, in call order
RECURSIVE SucceededCalls(_)
SucceededCalls(calls) ==
    IF calls = <<>> THEN <<>>
    ELSE (IF calls[1].result.ok THEN <<calls[1].result.v>> ELSE <<>>)
         \o SucceededCalls(Tail(calls))

\* C6: get_quotations returns Ok, and the list it returns is exactly the
\* quotations of the category calls and of the custom feeds that succeeded,
\* which may be the empty list.
C6_NeverHardFailure ==
    pc = "convert" =>
        /\ api_result.ok
        /\ api_result.v = QuotesOf(fiat_quotes) \o QuotesOf(crypto_quotes)
                              \o SucceededCalls(custom_calls)

\* C7: when the call of the fiat (or of the crypto) category failed, the result
\* holds no quotation of an asset of that category, and is exactly what the
\* other two categories returned.
C7_FailureIsolation ==
    pc = "convert" =>
        /\ ~fiat_quotes.ok =>
              /\ unwrap_or_default(api_result) = QuotesOf(crypto_quotes) \o QuotesOf(custom_quotes)
              /\ \A a \in Configured : OwnedByFiat(a) =>
                    \A i \in 1..Len(unwrap_or_default(api_result)) :
                        QuotationKey(unwrap_or_default(api_result)[i]) # Key(a)
        /\ ~crypto_quotes.ok =>
              /\ unwrap_or_default(api_result) = QuotesOf(fiat_quotes) \o QuotesOf(custom_quotes)
              /\ \A a \in Configured : OwnedByMarket(a) =>
                    \A i \in 1..Len(unwrap_or_default(api_result)) :
                        QuotationKey(unwrap_or_default(api_result)[i]) # Key(a)

\* the fiat call failed and the quotations of both custom feeds were returned
C7_Witness ==
    /\ pc = "convert"
    /\ ~fiat_quotes.ok
    /\ EUR \in Configured
    /\ custom_quotes.ok
    /\ Len(custom_quotes.v) = 2
    /\ api_result = Ok(custom_quotes.v)

\* C8: every quotation a custom feed returned in the cycle is in the result of
\* get_quotations, whatever the other feeds did.
C8_CustomPerAssetIsolation ==
    pc = "convert" =>
        \A i \in 1..Len(custom_calls) :
            custom_calls[i].result.ok =>
                custom_calls[i].result.v \in Range(unwrap_or_default(api_result))

\* C9: the task of the loop is never in a terminal state.
C9_LoopNeverStops == pc \in {"loop", "fiat", "crypto", "custom", "convert", "sleep"}

\* C10: the Duration slept is never negative, is 0 when the cycle took the
\* interval or longer, and else ends one interval after the cycle's start.
C10_SleepIsSaturatingDifference ==
    pc = "sleep" =>
        /\ sleep_for >= 0
        /\ elapsed >= update_interval => sleep_for = 0
        /\ elapsed < update_interval => elapsed + sleep_for = update_interval

\* a cycle took longer than the interval and the sleep is 0
C10_Witness ==
    /\ pc = "sleep"
    /\ update_interval > 0
    /\ elapsed > update_interval
    /\ sleep_for = 0

\* the positions of the task inside update_prices: a cycle is in progress
Running == {"fiat", "crypto", "custom", "convert"}

\* C11: a cycle in progress has not replaced yet, and a cycle that is over
\* (the task sleeps before the next one, or has left the loop) has performed
\* exactly one replace; the next cycle starts from there only.
C11_NoDoubleExecution ==
    /\ pc \in Running => replaces = 0
    /\ pc \notin Running \cup {"loop"} => replaces = 1
    /\ pc = "loop" => replaces \in {0, 1}

\* C12: in every state, whatever the writer is doing, the lookup can take its
\* next step (start, read the next specifier, return); what it loads is the
\* map of the records of the last completed replace (the empty map before the
\* first), never anything of the cycle in flight.
C12_ReadersNeverBlocked ==
    /\ [](/\ rpc = "idle" => ENABLED Load
          /\ rpc = "reading" => ENABLED (ReadNext \/ Return)
          /\ storage = replace_currencies_by_symbols(EmptyMap, published))
    /\ [][(rpc = "idle" /\ rpc' = "reading") =>
              reference' = replace_currencies_by_symbols(EmptyMap, published)]_vars

\* a lookup returned the records of the previous snapshot while a cycle that
\* has fetched quotations is still before its replace
C12_Witness ==
    /\ pc = "convert"
    /\ api_result.ok /\ api_result.v # <<>>
    /\ rpc = "done"
    /\ reference = storage
    /\ rresult # <<>>
    /\ rresult = Lookup(replace_currencies_by_symbols(EmptyMap, published),
                        blockchain_and_symbols)

\* C13: every step that changes the stored map is the replace of a cycle and
\* stores the map collected from that cycle's records; every other step (of
\* the fetch phase, of the timer, of a lookup) leaves it unchanged, and no
\* step changes the configured universe or the interval.
C13_SoleWriter ==
    [][/\ storage' # storage =>
            /\ pc = "convert" /\ pc' = "sleep"
            /\ replaces' = replaces + 1
            /\ storage' = replace_currencies_by_symbols(storage, currencies')
       /\ supported_currencies' = supported_currencies
       /\ update_interval' = update_interval]_vars

\* a replace has changed the stored map while a lookup is iterating over
\* the map it loaded before
C13_Witness ==
    /\ pc = "sleep"
    /\ replaces = 1
    /\ rpc = "reading"
    /\ ridx > 0
    /\ storage # reference
    /\ DOMAIN reference # {}

\* the requested specifiers that have a record in the map, in request order
KnownSpecs(map, specs) == SelectSeq(specs, LAMBDA sp : Key(sp) \in DOMAIN map)

\* C14: the list a lookup returns holds, in request order, the record stored
\* under the key of each requested specifier that has one and nothing for
\* the others; it is never longer than the request and is empty for an empty
\* request and for a request of unknown keys only.
C14_LookupOmitsUnknown ==
    rpc = "done" =>
        LET known == KnownSpecs(reference, blockchain_and_symbols)
        IN  /\ Len(rresult) = Len(known)
            /\ Len(rresult) <= Len(blockchain_and_symbols)
            /\ \A i \in 1..Len(rresult) :
                  /\ rresult[i] = reference[Key(known[i])]
                  /\ Key(rresult[i]) = Key(known[i])
            /\ (\A i \in 1..Len(blockchain_and_symbols) :
                    Key(blockchain_and_symbols[i]) \notin DOMAIN reference) => rresult = <<>>

\* a request with an unknown specifier between two known ones returned the
\* two records, in request order
C14_Witness ==
    /\ rpc = "done"
    /\ blockchain_and_symbols = <<EUR, BTC, AMPE>>
    /\ Len(rresult) = 2
    /\ Key(rresult[1]) = Key(EUR)
    /\ Key(rresult[2]) = Key(AMPE)

\* C15: as long as no replace has completed, the stored map is empty and
\* every lookup, whatever it asks for, has collected and returns nothing.
C15_StartsEmpty ==
    ~replaced =>
        /\ storage = EmptyMap
        /\ DOMAIN storage = {}
        /\ \A specs \in LookupRequests : Lookup(storage, specs) = <<>>
        /\ rpc \in {"reading", "done"} => rresult = <<>>

\* a lookup for two configured assets returned nothing while the first cycle,
\* which has fetched quotations, is still before its replace
C15_Witness ==
    /\ ~replaced
    /\ pc = "convert"
    /\ api_result.ok /\ api_result.v # <<>>
    /\ rpc = "done"
    /\ blockchain_and_symbols = <<AMPE, EUR>>
    /\ rresult = <<>>

\* floor(d * 10^12) of a non-negative d: its integer digits followed by its
\* first twelve fractional digits
FloorScaled(d) == Strip(d.int \o SubSeq(d.frac \o Zeros(ScaleLimbs), 1, ScaleLimbs))

\* the scaled value is in the range of the Decimal that holds the product
ScaledFits(d) == ~GeqLimbs(FloorScaled(d), DecimalMantissaLimit)

C17_OverflowIsAnError ==
    called >= 1 =>
        /\ output.tag \in {"ok", "err"}
        /\ (~input.neg /\ ~ScaledFits(input)) => output.tag = "err"
        /\ output.tag = "ok" => output.v = FloorScaled(input)

ProbeFroms == {"BRL", "USD", "ARS", "EUR", "brl", ""}
ProbeTos == {"USD", "EUR", "usd"}

\* the (FROM, TO) pairs a symbol is the form <FROM>-<TO> of: one pair for a
\* symbol with exactly one separator, none for any other
FromTo(symbol) == {ft \in ProbeFroms \X ProbeTos : symbol = ft[1] \o "-" \o ft[2]}

\* C19 as stated: the asset is supported exactly when its blockchain is
\* "FIAT" and its symbol is <FROM>-USD, and FROM is what is extracted.
C19_SupportsExactlyFiatUsd ==
    source_currency # NotAsked =>
        /\ source_currency.some <=>
              (probe.blockchain = "FIAT" /\ \E ft \in FromTo(probe.symbol) : ft[2] = "USD")
        /\ source_currency.some =>
              \E ft \in FromTo(probe.symbol) : source_currency.v = ft[1]

\* C19, amended: the asset is supported exactly when its blockchain is "FIAT"
\* in any letter case and its symbol is <FROM>-<TO> with exactly one separator
\* and TO equal to "USD" in any letter case; the source currency extracted is
\* FROM in upper case.
C19_SupportsFiatUsdAnyCase ==
    source_currency # NotAsked =>
        /\ source_currency.some <=>
              (/\ ToUpper(probe.blockchain) = "FIAT"
               /\ \E ft \in FromTo(probe.symbol) : ToUpper(ft[2]) = "USD")
        /\ source_currency.some =>
              \E ft \in FromTo(probe.symbol) : source_currency.v = ToUpper(ft[1])
        /\ (probe.symbol \in {"BRL-EUR", "BRLUSD", "BRL-USD-EUR", "BRL--USD"}) =>
              ~source_currency.some

\* fiat:brl-usd was accepted, with source currency BRL
C19_Witness ==
    /\ probe = AssetSpecifier("fiat", "brl-usd")
    /\ source_currency = Some("BRL")

\* C20: in a cycle of a universe with FIAT:USD-USD, the ticker of USD is not
\* among the tickers asked of the provider, no request is made when USD-USD
\* is the only fiat asset, and the fiat category returns the USD-USD
\* quotation of price 1 whatever the provider answered.
C20_UsdWithoutUpstream ==
    (pc \in {"crypto", "custom", "convert"} /\ USD \in Configured) =>
        /\ pg_request.some => currency_to_ticker("USD") \notin Range(pg_request.v)
        /\ (\A a \in Configured : PolygonIsSupported(a) => a = USD) => ~pg_request.some
        /\ fiat_quotes.ok
        /\ Quotation("USD-USD", "USD-USD", "FIAT", DecOne) \in Range(fiat_quotes.v)

\* C21: every quotation the Fiat Conversion Source returns has a price strictly
\* above zero, whatever bid and previous close the tickers carried.
C21_FiatPricePositive ==
    fiat_quotes.ok =>
        \A i \in 1..Len(fiat_quotes.v) : DecGtZero(fiat_quotes.v[i].price)

\* p * q = 1, for short mantissas
IsReciprocal(p, q) ==
    LimbsToInt(Strip(p.int \o p.frac)) * LimbsToInt(Strip(q.int \o q.frac))
        = LimbBase^(Len(p.frac) + Len(q.frac))

\* what a cross-rate view returns for the outcome q of its market query
GuardedReciprocal(view, q, r) ==
    /\ ~q.ok => r = CustomError("Failed to get price")
    /\ (q.ok /\ DecIsZero(q.v)) => (r.ok /\ DecIsZero(r.v.price))
    /\ (q.ok /\ ~DecIsZero(q.v)) =>
          /\ r.ok
          /\ DecGtZero(r.v.price)
          /\ view = "arsb" => IsReciprocal(r.v.price, q.v)

\* C22: a cross-rate view answers a market quote of zero with a quotation of
\* price zero, a failed market query with the typed error of that call, and any
\* other quote with a positive price, for the ARS view the reciprocal of the
\* quote; the registry hands the ARS asset's result through unchanged.
C22_ReciprocalGuarded ==
    /\ (view_price # NotCalled /\ view_price.view \in {"arsb", "brl"}) =>
          GuardedReciprocal(view_price.view, upstream[view_price.view], view_price.result)
    /\ (feed_price # NotCalled /\ get_supported_api(probe) = Some("arsb")) =>
          GuardedReciprocal("arsb", upstream.arsb, feed_price)

\* the ARS view was asked while the market quoted zero, and returned price zero
C22_Witness ==
    /\ view_price # NotCalled
    /\ view_price.view = "arsb"
    /\ upstream.arsb = Ok(DecZero)
    /\ view_price.result.ok
    /\ DecIsZero(view_price.result.v.price)

\* C23: every record of the stored map has a price above zero.
C23_NoZeroPricePublished ==
    \A k \in DOMAIN storage : ~IsZeroLimbs(storage[k].price)

\* the requests of the cycle sent to one provider
RequestsTo(provider) == {i \in 1..Len(requests) : requests[i].provider = provider}

\* the identifiers the Generic Market allow-list maps the configured assets to
MappedIdentifiers ==
    {convert_to_coingecko_id(a).v : a \in {b \in Configured : CoingeckoIsSupported(b)}}

\* no provider got a second request in the cycle
C24_NoSecondRequest ==
    \A i, j \in 1..Len(requests) :
        requests[i].provider = requests[j].provider => i = j

\* C24: when get_quotations has returned, the cycle has sent at most one
\* ticker-snapshot request, exactly one simple-price query, which names every
\* identifier a configured asset maps to, and no provider got a second
\* request, whatever failed or was missing.
C24_OneBatchedRequest ==
    pc = "convert" =>
        /\ Cardinality(RequestsTo("polygon")) <= 1
        /\ Cardinality(RequestsTo("coingecko")) = 1
        /\ \A i \in RequestsTo("coingecko") : Range(requests[i].query) = MappedIdentifiers
        /\ C24_NoSecondRequest

\* the replace of a cycle: the step from the conversions to the sleep
Replaced == pc = "convert" /\ pc' = "sleep"

\* a failed provider's assets are not in the snapshot the cycle installs
AgedOut ==
    /\ ~fiat_quotes.ok =>
          \A a \in Configured : PolygonIsSupported(a) /\ ~CustomIsSupported(a) =>
              Key(a) \notin DOMAIN storage'
    /\ \A i \in 1..Len(custom_calls) :
          ~custom_calls[i].result.ok => Key(custom_calls[i].asset) \notin DOMAIN storage'

\* the assets a provider answered for with a positive price are in the
\* snapshot the cycle installs
Recovered ==
    /\ fiat_quotes.ok =>
          \A i \in 1..Len(fiat_quotes.v) :
              DecGtZero(fiat_quotes.v[i].price) =>
                  QuotationKey(fiat_quotes.v[i]) \in DOMAIN storage'
    /\ \A i \in 1..Len(custom_calls) :
          (custom_calls[i].result.ok /\ DecGtZero(custom_calls[i].result.v.price)) =>
              QuotationKey(custom_calls[i].result.v) \in DOMAIN storage'

\* C25: the snapshot a cycle installs holds no asset of a provider that failed
\* in the cycle, whatever was published before, and holds every asset a
\* provider answered for in the cycle, so an asset comes back with its
\* provider and the assets of the providers that answer stay published.
C25_AgeingAndRecovery == [][Replaced => (AgedOut /\ Recovered)]_vars

\* the orders the three categories can be queried and merged in
CategoryOrders ==
    {o \in [1..3 -> {"fiat", "crypto", "custom"}] : \A i, j \in 1..3 : o[i] = o[j] => i = j}

\* the result of a category in the cycle
CategoryResult(c) ==
    CASE c = "fiat"   -> fiat_quotes
      [] c = "crypto" -> crypto_quotes
      [] c = "custom" -> custom_quotes

\* get_quotations with its three blocks in the order o
MergedIn(o) ==
    ExtendIfOk(ExtendIfOk(ExtendIfOk(<<>>, CategoryResult(o[1])), CategoryResult(o[2])),
               CategoryResult(o[3]))

\* the map update_prices installs for the quotations q
SnapshotOf(q) == replace_currencies_by_symbols(storage, ConvertAll(q).v)

\* C26: the snapshot a cycle installs for the results of its three categories
\* is the same for every order the categories are merged in.
C26_OrderIndependent ==
    (pc = "convert" /\ ConvertAll(api_result.v).tag = "ok") =>
        \A o \in CategoryOrders : SnapshotOf(MergedIn(o)) = SnapshotOf(api_result.v)

\* C27: every key of the stored map is the specifier of a configured asset,
\* and after a cycle a lookup with the configured specifier returns a record
\* for every asset a custom feed or the fiat source answered for.
C27_KeyIsConfiguredSpecifier ==
    /\ \A k \in DOMAIN storage : \E a \in Configured : Key(a) = k
    /\ pc = "sleep" =>
          /\ custom_quotes.ok =>
                \A i \in 1..Len(custom_calls) :
                    Lookup(storage, <<custom_calls[i].asset>>) # <<>>
          /\ fiat_quotes.ok =>
                \A a \in Configured :
                    (\E i \in 1..Len(fiat_quotes.v) :
                        /\ ToUpper(fiat_quotes.v[i].symbol) = ToUpper(a.symbol)
                        /\ DecGtZero(fiat_quotes.v[i].price)
                        /\ PolygonIsSupported(a)) =>
                    Lookup(storage, <<a>>) # <<>>

\* C28: every record of the stored map has supply 0, whatever supply the
\* quotation it was converted from carried.
C28_SupplyIsZero ==
    \A k \in DOMAIN storage : storage[k].supply = 0

\* a record is stored for a quotation that carried a supply of 21 million
C28_Witness ==
    /\ pc = "sleep"
    /\ \E i \in 1..Len(api_result.v) :
          /\ ~DecIsZero(api_result.v[i].supply)
          /\ QuotationKey(api_result.v[i]) \in DOMAIN storage
          /\ storage[QuotationKey(api_result.v[i])].supply = 0

\* the positions in the registry of the feeds that support the asset
Supporting(asset) == {i \in 1..Len(CustomApis) : ApiSupports(CustomApis[i], asset)}

\* C29: is_supported is true exactly when some registered feed supports the
\* asset; get_price is answered by the first such feed in registration order
\* and reaches that feed's upstream only; for an asset no feed supports it
\* returns the error "Unsupported asset" and reaches no upstream.
C29_RegistryFirstMatch ==
    /\ CustomIsSupported(probe) <=> Supporting(probe) # {}
    /\ feed_price # NotCalled =>
          IF Supporting(probe) = {}
          THEN /\ feed_price = CustomError("Unsupported asset")
               /\ upstream_calls = <<>>
          ELSE LET first == CHOOSE i \in Supporting(probe) :
                                \A j \in Supporting(probe) : i <= j
               IN  /\ feed_price = ApiGetPrice(CustomApis[first], upstream[CustomApis[first]])
                   /\ upstream_calls = <<CustomApis[first]>>

\* get_price was asked for FIAT:BRL-USD, which no registered feed supports
C29_Witness ==
    /\ probe = AssetSpecifier("FIAT", "BRL-USD")
    /\ feed_price = CustomError("Unsupported asset")
    /\ upstream_calls = <<>>
    /\ upstream.ampe.ok
    /\ upstream.arsb.ok

\* the configured assets the mocked API has a quotation for
Quoted == {a \in Configured : Key(a) \in DOMAIN mock}

\* C30: after a cycle over the universe U with the mocked API, the lookup of U
\* returns one record for each asset of U the API quotes and no other, and
\* the lookup of an asset the API does not quote or that is not in U returns
\* nothing.
C30_LookupReturnsQuoted ==
    pc = "sleep" =>
        LET found == Lookup(storage, supported_currencies)
        IN  /\ Len(found) = Cardinality(Quoted)
            /\ \A a \in Quoted :
                  Cardinality({i \in 1..Len(found) : Key(found[i]) = Key(a)}) = 1
            /\ \A a \in (MockAssets \cup Configured) \ Quoted : Lookup(storage, <<a>>) = <<>>

\* a cycle over a universe of which the API quotes one asset and not the other
C30_Witness ==
    /\ pc = "sleep"
    /\ Quoted # {}
    /\ Quoted # Configured
    /\ Len(Lookup(storage, supported_currencies)) = Cardinality(Quoted)

\* the cycle's get_quotations returned an error
ApiFailed == pc = "convert" /\ ~api_result.ok

\* C31: when get_quotations returns an error, the cycle still replaces, with
\* an empty list: the snapshot becomes empty whatever it held before, and the
\* loop goes on to its delay, from which the only step is back to the top of
\* the loop.
C31_ErrorEmptiesSnapshot ==
    /\ [][ApiFailed =>
            /\ pc' = "sleep"
            /\ replaces' = replaces + 1
            /\ published' = <<>>
            /\ storage' = EmptyMap]_vars
    /\ [][pc = "sleep" /\ ~api_result.ok => pc' = "loop" /\ storage' = EmptyMap]_vars

\* a failed cycle after a successful one: the records of the previous snapshot
\* are gone
C31_Witness ==
    /\ pc = "sleep"
    /\ ~api_result.ok
    /\ replaces = 1
    /\ aged_out # {}
    /\ storage = EmptyMap

\* the positions of the records of key k in a list
PositionsOf(records, k) == {i \in 1..Len(records) : Key(records[i]) = k}

\* the quotations of a category result for the key k
QuotedFor(result, k) ==
    {result.v[i] : i \in {j \in 1..Len(QuotesOf(result)) : QuotationKey(result.v[j]) = k}}

\* C32: after a replace, every key of the list has exactly one record in the
\* snapshot, the last record of that key in the list; so when the Fiat
\* Conversion Source and a Custom feed both returned a quotation for an asset
\* in the cycle, the snapshot holds the conversion of the Custom feed's.
C32_LaterRecordWins ==
    pc = "sleep" =>
        /\ \A k \in KeysOf(published) :
              /\ k \in DOMAIN storage
              /\ \A i \in PositionsOf(published, k) :
                    (\A j \in PositionsOf(published, k) : j <= i) => storage[k] = published[i]
              /\ Len(Lookup(storage, <<[blockchain |-> k[1], symbol |-> k[2]]>>)) = 1
        /\ \A a \in Configured :
              (QuotedFor(fiat_quotes, Key(a)) # {} /\ QuotedFor(custom_quotes, Key(a)) # {}) =>
                  /\ Key(a) \in DOMAIN storage
                  /\ \E q \in QuotedFor(custom_quotes, Key(a)) :
                        storage[Key(a)] = convert_to_coin_info(q).v

\* a cycle in which both sources quoted one asset at different prices: the list
\* had two records of the key and the stored one is the Custom feed's
C32_Witness ==
    /\ pc = "sleep"
    /\ \E a \in Configured :
          /\ Cardinality(PositionsOf(published, Key(a))) = 2
          /\ \E f \in QuotedFor(fiat_quotes, Key(a)), q \in QuotedFor(custom_quotes, Key(a)) :
                /\ convert_to_coin_info(f).v.price # convert_to_coin_info(q).v.price
                /\ storage[Key(a)] = convert_to_coin_info(q).v
                /\ storage[Key(a)] # convert_to_coin_info(f).v

\* the blockchain names a lookup may ask under
LookupBlockchains ==
    {a.blockchain : a \in MockAssets} \cup {"FIAT", "fiat", "Fiat", NoBlockchain, ""}

\* C33: after a cycle, a quotation without a blockchain is found by the lookup
\* of (FIAT, symbol), as one record with the converted price and the
\* quotation's name, and by the lookup of no other blockchain with that symbol.
C33_AbsentBlockchainIsFiat ==
    pc = "sleep" =>
        \A i \in 1..Len(QuotesOf(api_result)) :
            LET q == api_result.v[i]
            IN  q.blockchain = NoBlockchain =>
                    /\ Lookup(storage, <<AssetSpecifier("FIAT", q.symbol)>>)
                          = << [name       |-> q.name,
                                symbol     |-> q.symbol,
                                blockchain |-> "FIAT",
                                price      |-> convert_decimal_to_u128(q.price).v,
                                supply     |-> 0] >>
                    /\ \A b \in LookupBlockchains \ {"FIAT"} :
                          Lookup(storage, <<AssetSpecifier(b, q.symbol)>>) = <<>>

\* the cycles of the tests: MXN-USD at 0.053712327 is found under FIAT as
\* "MXNUSD=X" with price 53712327000, USD-USD at 1 as "USD-X" with 10^12
C33_Witness ==
    /\ pc = "sleep"
    /\ \/ /\ MXN \in Configured
          /\ Lookup(storage, <<MXN>>)[1].name = "MXNUSD=X"
          /\ Lookup(storage, <<MXN>>)[1].price = <<53712, 327000>>
          /\ mock[Key(MXN)].blockchain = NoBlockchain
       \/ /\ USD \in Configured
          /\ Lookup(storage, <<USD>>)[1].name = "USD-X"
          /\ Lookup(storage, <<USD>>)[1].price = <<1, 0, 0>>
          /\ mock[Key(USD)].blockchain = NoBlockchain

\* the assets get_prices is asked for and answers for
Requested ==
    {a \in Configured : ToUpper(a.blockchain) = "FIAT" /\ PolygonIsSupported(a)}

\* the ticker names of the provider's answer
Answered_tickers == {polygon_quotes.v[i].ticker_name : i \in 1..Len(polygon_quotes.v)}

\* C34: get_prices returns at most one quotation per requested asset, USD-USD
\* included, and each quotation it returns is the one of a requested asset whose
\* ticker the provider answered (or of USD-USD): a ticker that maps to no
\* requested asset adds nothing.
C34_OneQuotationPerRequestedAsset ==
    (polygon_prices # NotCalled /\ polygon_prices.ok) =>
        LET prices == polygon_prices.v
        IN  /\ \A a \in Requested :
                  Cardinality({i \in 1..Len(prices) : prices[i].symbol = a.symbol}) <= 1
            /\ \A i \in 1..Len(prices) :
                  \E a \in Requested :
                      /\ a.symbol = prices[i].symbol
                      /\ \/ a = USD
                         \/ currency_to_ticker(extract_source_currency(a).v)
                                \in Answered_tickers
            /\ Len(prices) <= Cardinality(Requested)

\* C35: the registry supports FIAT:BRL-USD, and with the market quote of the
\* BRL view succeeding get_price for that asset returns the view's quotation,
\* symbol BRL-USD on blockchain FIAT, not the error "Unsupported asset".
C35_BrlFeedRegistered ==
    (probe = BRL /\ feed_price # NotCalled) =>
        /\ CustomIsSupported(probe)
        /\ upstream.brl.ok =>
              /\ feed_price.ok
              /\ feed_price = ViewGetPrice("brl", upstream.brl)
              /\ feed_price.v.symbol = "BRL-USD"
              /\ feed_price.v.blockchain = "FIAT"

\* every provider answered the cycle in full: a quotation for each fiat asset,
\* a price for each id of the allow-list, and the custom feeds' quotations
ProvidersSucceeded ==
    /\ fiat_quotes.ok
    /\ \A a \in Configured :
          PolygonIsSupported(a) => QuotedFor(fiat_quotes, Key(a)) # {}
    /\ cg_prices = Ok(<<UsdPrice("pendulum"), UsdPrice("polkadot"), UsdPrice("kusama"),
                        UsdPrice("astar"), UsdPrice("bifrost-native-coin"),
                        UsdPrice("voucher-dot"), UsdPrice("hydration"), UsdPrice("moonbeam"),
                        UsdPrice("polkadex"), UsdPrice("stellar")>>)
    /\ crypto_quotes.ok
    /\ custom_quotes.ok

\* some source category accepts the asset
SupportedBySomeSource(a) ==
    CustomIsSupported(a) \/ PolygonIsSupported(a) \/ CoingeckoIsSupported(a)

\* C36: every asset of the default universe is accepted by the support
\* predicate of some source category, and after a cycle in which every
\* provider succeeded the snapshot has a record for each default asset.
C36_DefaultUniverseCovered ==
    /\ \A a \in Configured : SupportedBySomeSource(a)
    /\ (pc = "sleep" /\ ProvidersSucceeded) =>
          \A a \in Configured : Lookup(storage, <<a>>) # <<>>

====
